---- MODULE Spec2Model ----
(***************************************************************************)
(* A model of morning_digest.py: the weekly digest pipeline                *)
(*   load feeds -> fetch -> dedupe -> (summarise -> sanitise | fallback)   *)
(*   -> render -> send.                                                    *)
(* Python strings are sequences of one-character strings, so that strip,   *)
(* lower, replace and split are computed and not assumed.                  *)
(***************************************************************************)
EXTENDS Integers, Sequences, FiniteSets, TLC

VARIABLES
    pc,             \* the stage main has reached
    topn,           \* args.topn
    feeds,          \* the feeds load_feeds returned
    fetched,        \* what fetch_items returned
    items,          \* what dedupe returned
    selected,       \* items[:max_articles]
    api_key,        \* whether PERPLEXITY_API_KEY is set
    response,       \* the answer of the chat-completion endpoint
    digest,         \* the digest built from selected
    used_fallback,  \* the flag build_digest_payload returns
    usage,          \* the token usage build_digest_payload returns
    body,           \* the rendered email
    subject,        \* the suffix of the subject line
    mail_to,        \* the MAIL_TO environment variable
    roster,         \* the rows of the recipient roster file
    outbox,         \* the messages handed to the SMTP relay
    requests,       \* the number of summarisation requests issued
    exc,            \* the exception that ended the run, if any
    prompts,        \* the two prompt template files: missing, empty or ok
    csv_file,       \* the feed configuration file: missing, or its rows
    web,            \* what fetching each feed gives: a failure or entries
    hours,          \* args.hours
    per_feed,       \* args.per_feed
    now,            \* the clock when fetch_items starts, in seconds
    fetch_log,      \* the clock at every call of feedparser.parse so far
    smtp,           \* how the SMTP session of send_email went
    smtp_sessions,  \* the number of SMTP sessions started
    sent,           \* what send_email returned
    stages          \* the stages main has gone through, in order

vars == <<pc, topn, feeds, fetched, items, selected, api_key, response,
          digest, used_fallback, usage, body, subject, mail_to, roster,
          outbox, requests, exc, prompts, csv_file, web, hours, per_feed, now,
          fetch_log, smtp, smtp_sessions, sent, stages>>

\* what the run is given and never changes
env == <<prompts, csv_file, web, hours, per_feed, now>>

(***************************************************************************)
(* Bounds of the model.                                                    *)
(***************************************************************************)
\* longest input of dedupe
MaxDedupeLen == 3
\* most entries a feed serves when fetch_items is run on its own
MaxFeedEntries == 2
\* longest list of arbitrary raw items given to the sanitizer
MaxDefaultsLen == 2
\* longest list of distinct raw items; it exceeds the cap on digest items
MaxLongList == 12
\* longest list of item entries in a payload
MaxPayloadItems == 2
\* longest roster file, in rows
MaxRoster == 3
\* most pieces between the commas of MAIL_TO
MaxMailToPieces == 2

\* the sequences over S of length at most n
SeqsUpTo(S, n) == UNION {[1..k -> S] : k \in 0..n}

(***************************************************************************)
(* Python string methods.                                                  *)
(***************************************************************************)
\* str.lower on one character of the alphabet in use
LowerChar(c) ==
    CASE c = "A" -> "a"
      [] c = "B" -> "b"
      [] c = "X" -> "x"
      [] OTHER -> c

\* str.lower()
lower(s) == [i \in DOMAIN s |-> LowerChar(s[i])]

\* the characters str.strip() removes
IsSpace(c) == c = " "

RECURSIVE lstrip(_)
lstrip(s) ==
    IF s # <<>> /\ IsSpace(Head(s)) THEN lstrip(Tail(s)) ELSE s

RECURSIVE rstrip(_)
rstrip(s) ==
    IF s # <<>> /\ IsSpace(s[Len(s)]) THEN rstrip(SubSeq(s, 1, Len(s) - 1)) ELSE s

\* str.strip()
strip(s) == lstrip(rstrip(s))

\* str.rstrip(".")
RECURSIVE rstrip_dot(_)
rstrip_dot(s) ==
    IF s # <<>> /\ s[Len(s)] = "." THEN rstrip_dot(SubSeq(s, 1, Len(s) - 1)) ELSE s

\* str.replace(" ", "-")
replace_space(s) == [i \in DOMAIN s |-> IF s[i] = " " THEN "-" ELSE s[i]]

\* list slicing lst[:n] for every integer n (a negative n counts from the end)
Slice(lst, n) ==
    LET stop == IF n >= 0 THEN (IF n < Len(lst) THEN n ELSE Len(lst))
                ELSE (IF Len(lst) + n > 0 THEN Len(lst) + n ELSE 0)
    IN  SubSeq(lst, 1, stop)

(***************************************************************************)
(* Raw items, as fetch_items builds them.                                  *)
(***************************************************************************)
RawItem(source, title, link, display, iso, paywalled) ==
    [source |-> source, title |-> title, link |-> link,
     published_display |-> display, published_iso |-> iso,
     paywalled |-> paywalled]

(***************************************************************************)
(* dedupe: the loop over items with the set of seen keys.                  *)
(***************************************************************************)
DedupeKey(item) == <<lower(item.title), item.link>>

\* the key a case-sensitive comparison of titles would use
DedupeKeyExact(item) == <<item.title, item.link>>

RECURSIVE DedupeLoop(_, _, _, _)
DedupeLoop(its, i, seen, unique) ==
    IF i > Len(its) THEN unique
    ELSE LET key == DedupeKey(its[i])
         IN  IF key \in seen
             THEN DedupeLoop(its, i + 1, seen, unique)
             ELSE DedupeLoop(its, i + 1, seen \cup {key}, Append(unique, its[i]))

RECURSIVE DedupeLoopExact(_, _, _, _)
DedupeLoopExact(its, i, seen, unique) ==
    IF i > Len(its) THEN unique
    ELSE LET key == DedupeKeyExact(its[i])
         IN  IF key \in seen
             THEN DedupeLoopExact(its, i + 1, seen, unique)
             ELSE DedupeLoopExact(its, i + 1, seen \cup {key}, Append(unique, its[i]))

\* dedupe with the titles compared case-sensitively
dedupe_exact(its) == DedupeLoopExact(its, 1, {}, <<>>)

dedupe(its) == DedupeLoop(its, 1, {}, <<>>)

(***************************************************************************)
(* JSON values as json.loads returns them, and the Python operations the   *)
(* code applies to them.  A value is a record tagged by its Python type.   *)
(***************************************************************************)
JNull == [t |-> "null"]
JBool(b) == [t |-> "bool", v |-> b]
JNum(n) == [t |-> "num", v |-> n]
JStr(s) == [t |-> "str", v |-> s]
JList(l) == [t |-> "list", v |-> l]

\* a dict from a sequence of <<key, value>> pairs with distinct keys;
\* keys holds the insertion order, which iteration over the dict follows
JObj(pairs) ==
    [t |-> "obj",
     keys |-> [i \in DOMAIN pairs |-> pairs[i][1]],
     v |-> [k \in {pairs[i][1] : i \in DOMAIN pairs} |->
              pairs[CHOOSE i \in DOMAIN pairs : pairs[i][1] = k][2]]]

\* Python truthiness: what `x or default` and `if not x` test
Truthy(x) ==
    CASE x.t = "null" -> FALSE
      [] x.t = "bool" -> x.v
      [] x.t = "num" -> x.v # 0
      [] x.t = "str" -> Len(x.v) > 0
      [] x.t = "list" -> Len(x.v) > 0
      [] x.t = "obj" -> Len(x.keys) > 0

\* dict.get(key): None when the key is absent
Get(obj, key) == IF key \in DOMAIN obj.v THEN obj.v[key] ELSE JNull

\* decimal digits of a natural number
RECURSIVE Digits(_)
Digits(n) ==
    LET d == <<"0", "1", "2", "3", "4", "5", "6", "7", "8", "9">>[(n % 10) + 1]
    IN  IF n < 10 THEN <<d>> ELSE Append(Digits(n \div 10), d)

\* repr() of a value, which str() gives for everything but a string
RECURSIVE Repr(_)
RECURSIVE ReprJoin(_, _)
RECURSIVE ReprPairs(_, _)
Repr(x) ==
    CASE x.t = "null" -> <<"None">>
      [] x.t = "bool" -> IF x.v THEN <<"True">> ELSE <<"False">>
      [] x.t = "num" -> IF x.v < 0 THEN <<"-">> \o Digits(-x.v) ELSE Digits(x.v)
      [] x.t = "str" -> <<"'">> \o x.v \o <<"'">>
      [] x.t = "list" -> <<"[">> \o ReprJoin(x.v, 1) \o <<"]">>
      [] x.t = "obj" -> <<"{">> \o ReprPairs(x, 1) \o <<"}">>

ReprJoin(l, i) ==
    IF i > Len(l) THEN <<>>
    ELSE (IF i > 1 THEN <<",", " ">> ELSE <<>>) \o Repr(l[i]) \o ReprJoin(l, i + 1)

ReprPairs(x, i) ==
    IF i > Len(x.keys) THEN <<>>
    ELSE (IF i > 1 THEN <<",", " ">> ELSE <<>>)
         \o Repr(JStr(x.keys[i])) \o <<":", " ">> \o Repr(x.v[x.keys[i]])
         \o ReprPairs(x, i + 1)

\* str(x)
PyStr(x) == IF x.t = "str" THEN x.v ELSE Repr(x)

\* iter(x) for the types a for loop accepts: a list gives its entries, a
\* string its characters, a dict its keys
Iter(x) ==
    CASE x.t = "list" -> x.v
      [] x.t = "str" -> [i \in DOMAIN x.v |-> JStr(<<x.v[i]>>)]
      [] x.t = "obj" -> [i \in DOMAIN x.keys |-> JStr(x.keys[i])]
      [] OTHER -> <<>>

\* a for loop over x raises TypeError: an int or a bool is not iterable
NotIterable(x) == x.t \in {"num", "bool", "null"}

(***************************************************************************)
(* The keys and fixed texts of the digest.                                 *)
(***************************************************************************)
K_highlights == <<"h", "i", "g", "h", "l", "i", "g", "h", "t", "s">>
K_items == <<"i", "t", "e", "m", "s">>
K_title == <<"t", "i", "t", "l", "e">>
K_url == <<"u", "r", "l">>
K_source == <<"s", "o", "u", "r", "c", "e">>
K_summary == <<"s", "u", "m", "m", "a", "r", "y">>
K_market_impact == <<"m", "a", "r", "k", "e", "t", "_", "i", "m", "p", "a", "c", "t">>
K_action == <<"a", "c", "t", "i", "o", "n">>
K_tags == <<"t", "a", "g", "s">>
K_paywalled == <<"p", "a", "y", "w", "a", "l", "l", "e", "d">>
K_published_display == <<"p", "u", "b", "l", "i", "s", "h", "e", "d", "_", "d", "i", "s", "p", "l", "a", "y">>
K_published_iso == <<"p", "u", "b", "l", "i", "s", "h", "e", "d", "_", "i", "s", "o">>

\* the fixed texts; each is one opaque non-blank token of the string
DefaultSummary == <<"Headline only; see source link.">>
DefaultMarketImpact == <<"Analyse direct source; market impact commentary unavailable this week.">>
DefaultAction == <<"Review the linked piece and note implications for your coverage list.">>
DefaultTag == <<"markets">>
FallbackSummary == <<"Perplexity unavailable; sharing headline details only.">>
FallbackMarketImpact == <<"Review primary source to assess potential portfolio impact.">>
FallbackAction == <<"Scan the linked piece and flag follow-ups during Monday's stand-up.">>
FallbackTag == <<"headline">>
QuietHighlight == <<"Quiet tape across tracked feeds">>

\* the cap on the items of a digest
MaxDigestItems == 10
\* the cap on the highlights of a digest
MaxHighlights == 6
\* how many raw items the synthesised highlights are drawn from
HighlightSources == 3
\* the cap on the tags of an item
MaxTags == 4

\* f"{item['source']}: {item['title']}"
HeadlineOf(item) == item.source \o <<":", " ">> \o item.title

(***************************************************************************)
(* _normalise_tags                                                         *)
(***************************************************************************)
RECURSIVE TagLoop(_, _, _)
TagLoop(raw, i, tags) ==
    IF i > Len(raw) THEN tags
    ELSE IF raw[i].t # "str" THEN TagLoop(raw, i + 1, tags)
    ELSE LET slug == lower(strip(raw[i].v))
         IN  IF slug = <<>> THEN TagLoop(raw, i + 1, tags)
             ELSE TagLoop(raw, i + 1, Append(tags, replace_space(slug)))

\* the tags the loop of _normalise_tags collects
CollectedTags(raw_tags) ==
    IF raw_tags.t = "list" THEN TagLoop(raw_tags.v, 1, <<>>) ELSE <<>>

\* _normalise_tags without the default tag
normalise_tags_no_default(raw_tags) == Slice(CollectedTags(raw_tags), MaxTags)

\* _normalise_tags without the truncation to four
normalise_tags_no_cap(raw_tags) ==
    IF CollectedTags(raw_tags) # <<>> THEN CollectedTags(raw_tags) ELSE <<DefaultTag>>

_normalise_tags(raw_tags) ==
    IF CollectedTags(raw_tags) # <<>>
    THEN Slice(CollectedTags(raw_tags), MaxTags)
    ELSE <<DefaultTag>>

(***************************************************************************)
(* _sanitize_digest_payload                                                *)
(***************************************************************************)
\* the comprehension over `raw_highlights or []`: the entries that are
\* non-blank strings, each stripped and with its trailing dots removed
RECURSIVE HighlightLoop(_, _, _)
HighlightLoop(entries, i, acc) ==
    IF i > Len(entries) THEN acc
    ELSE IF entries[i].t = "str" /\ strip(entries[i].v) # <<>>
         THEN HighlightLoop(entries, i + 1,
                            Append(acc, rstrip_dot(strip(PyStr(entries[i])))))
         ELSE HighlightLoop(entries, i + 1, acc)

\* the comprehension raises TypeError when `raw_highlights or []` is a
\* truthy value that a for loop cannot iterate
SanitizeRaises(pl) ==
    Truthy(Get(pl, K_highlights)) /\ NotIterable(Get(pl, K_highlights))

PayloadHighlights(pl) ==
    IF Truthy(Get(pl, K_highlights))
    THEN HighlightLoop(Iter(Get(pl, K_highlights)), 1, <<>>)
    ELSE <<>>

SanitizedHighlights(pl, defaults) ==
    LET given == PayloadHighlights(pl)
        synth == [i \in 1..Len(Slice(defaults, HighlightSources)) |->
                    HeadlineOf(defaults[i])]
    IN  Slice(IF given # <<>> THEN given ELSE synth, MaxHighlights)

\* the payload's items when they are a list, else the empty list
PayloadItems(pl) ==
    IF Get(pl, K_items).t = "list" THEN Get(pl, K_items).v ELSE <<>>

\* the payload's dict for position idx, else the empty dict
Candidate(raw_items, idx) ==
    IF idx <= Len(raw_items) /\ raw_items[idx].t = "obj"
    THEN raw_items[idx]
    ELSE JObj(<<>>)

\* str(candidate.get(key) or default).strip()
FieldText(candidate, key, default) ==
    strip(IF Truthy(Get(candidate, key)) THEN PyStr(Get(candidate, key)) ELSE default)

\* the three fields taken from the payload when it gives them
BaseFieldsFromPayload(candidate, base) ==
    [paywalled |-> IF K_paywalled \in DOMAIN candidate.v
                   THEN Truthy(Get(candidate, K_paywalled)) ELSE base.paywalled,
     published_display |-> FieldText(candidate, K_published_display, base.published_display),
     published_iso |-> FieldText(candidate, K_published_iso, base.published_iso)]

\* the three fields of a digest item that are copied from the raw item
BaseFields(candidate, base) ==
    [paywalled |-> base.paywalled,
     published_display |-> base.published_display,
     published_iso |-> base.published_iso]

SanitizedItem(candidate, base) ==
    LET url == FieldText(candidate, K_url, base.link)
        source == FieldText(candidate, K_source, base.source)
    IN  [title |-> FieldText(candidate, K_title, base.title),
         url |-> IF url # <<>> THEN url ELSE base.link,
         source |-> IF source # <<>> THEN source ELSE base.source,
         summary |-> FieldText(candidate, K_summary, DefaultSummary),
         market_impact |-> FieldText(candidate, K_market_impact, DefaultMarketImpact),
         action |-> FieldText(candidate, K_action, DefaultAction),
         tags |-> _normalise_tags(Get(candidate, K_tags)),
         paywalled |-> BaseFields(candidate, base).paywalled,
         published_display |-> BaseFields(candidate, base).published_display,
         published_iso |-> BaseFields(candidate, base).published_iso]

\* the digest _sanitize_digest_payload returns when it raises nothing
_sanitize_digest_payload(pl, defaults) ==
    LET n == IF Len(defaults) < MaxDigestItems THEN Len(defaults) ELSE MaxDigestItems
    IN  [highlights |-> SanitizedHighlights(pl, defaults),
         items |-> [idx \in 1..n |->
                      SanitizedItem(Candidate(PayloadItems(pl), idx), defaults[idx])]]

(***************************************************************************)
(* _build_fallback_item and build_fallback_digest                          *)
(***************************************************************************)
_build_fallback_item(item) ==
    [title |-> item.title,
     url |-> item.link,
     source |-> item.source,
     summary |-> FallbackSummary,
     market_impact |-> FallbackMarketImpact,
     action |-> FallbackAction,
     tags |-> <<FallbackTag>>,
     paywalled |-> item.paywalled,
     published_display |-> item.published_display,
     published_iso |-> item.published_iso]

\* the mutant of build_fallback_digest that caps the items as the sanitizer
\* does
build_fallback_digest_capped(its) ==
    LET heads == [i \in 1..Len(Slice(its, HighlightSources)) |-> HeadlineOf(its[i])]
    IN  [highlights |-> IF heads # <<>> THEN heads ELSE <<QuietHighlight>>,
         items |-> [i \in 1..Len(Slice(its, MaxDigestItems)) |->
                        _build_fallback_item(its[i])]]

build_fallback_digest(its) ==
    LET heads == [i \in 1..Len(Slice(its, HighlightSources)) |-> HeadlineOf(its[i])]
    IN  [highlights |-> IF heads # <<>> THEN heads ELSE <<QuietHighlight>>,
         items |-> [i \in 1..Len(its) |-> _build_fallback_item(its[i])]]

(***************************************************************************)
(* _mail_recipients and _token_usage_payload                               *)
(***************************************************************************)
\* str.split(","): the pieces between the commas, from position i on, with
\* cur the piece being read
RECURSIVE SplitLoop(_, _, _, _)
SplitLoop(s, i, cur, acc) ==
    IF i > Len(s) THEN Append(acc, cur)
    ELSE IF s[i] = "," THEN SplitLoop(s, i + 1, <<>>, Append(acc, cur))
    ELSE SplitLoop(s, i + 1, Append(cur, s[i]), acc)

split_comma(s) == SplitLoop(s, 1, <<>>, <<>>)

\* [f(x) for x in l if x.strip()] with f = strip
RECURSIVE StripNonBlank(_, _, _)
StripNonBlank(l, i, acc) ==
    IF i > Len(l) THEN acc
    ELSE IF strip(l[i]) # <<>> THEN StripNonBlank(l, i + 1, Append(acc, strip(l[i])))
    ELSE StripNonBlank(l, i + 1, acc)

\* the list _mail_recipients builds from MAIL_TO; it raises SystemExit when
\* the list is empty.  The roster file is not an input of it.
_mail_recipients(raw) == StripNonBlank(split_comma(raw), 1, <<>>)

\* int(usage.get(key) or 0)
UsageInt(u, key) == IF Truthy(Get(u, key)) THEN Get(u, key).v ELSE 0

_token_usage_payload(u) ==
    LET usage_ == IF Truthy(u) THEN u ELSE JObj(<<>>)
        prompt == UsageInt(usage_, <<"prompt_tokens">>)
        completion == UsageInt(usage_, <<"completion_tokens">>)
        total == IF Truthy(Get(usage_, <<"total_tokens">>))
                 THEN Get(usage_, <<"total_tokens">>).v ELSE prompt + completion
    IN  [prompt |-> prompt, completion |-> completion,
         total |-> IF total = 0 THEN prompt + completion ELSE total]

ZeroUsage == [prompt |-> 0, completion |-> 0, total |-> 0]

(***************************************************************************)
(* render_email, by what it puts in the document, and the subject of main  *)
(***************************************************************************)
RenderPlaceholderHighlight == <<"Fresh intelligence from across the desk">>

render_email(dg, fallback) ==
    LET article_items == Slice(dg.items, MaxDigestItems)
    IN  [fallback_notice |-> fallback,
         article_count |-> Len(article_items),
         highlights |-> Slice(IF dg.highlights # <<>> THEN dg.highlights
                              ELSE <<RenderPlaceholderHighlight>>, HighlightSources),
         cards |-> article_items,
         empty_card |-> article_items = <<>>]

\* the digest main builds when no item is left after dedupe
QuietDigest ==
    [highlights |-> <<<<"No tracked updates in the window">>>>,
     items |-> <<[title |-> <<"No fresh items found">>,
                  url |-> <<"#">>,
                  source |-> <<"Wayve Monitor">>,
                  summary |-> <<"Feeds were quiet; we'll resume next week with fresh intelligence.">>,
                  market_impact |-> <<"No immediate market-moving headlines detected across monitored sources.">>,
                  action |-> <<"Use the lull to review positioning and backlog research tasks.">>,
                  tags |-> <<<<"quiet-week">>>>,
                  paywalled |-> FALSE,
                  published_display |-> <<"today">>,
                  published_iso |-> <<"now">>]>>]

\* max_articles = min(args.topn, 10); selected = items[:max_articles]
Select(its, n) == Slice(its, IF n < MaxDigestItems THEN n ELSE MaxDigestItems)

(***************************************************************************)
(* summarize_with_perplexity and build_digest_payload.  The answer of the  *)
(* endpoint is a record whose kind names the branch of the code it takes.  *)
(***************************************************************************)
NoResponse == [kind |-> "none"]

\* the answers that make summarize_with_perplexity raise PerplexityError
PerplexityFailures ==
    {"request_exception",   \* requests.post or raise_for_status raised
     "no_choices",          \* data.get("choices") is missing or empty
     "empty_content",       \* the message content is missing or ""
     "blank_content",       \* the content is whitespace only
     "no_json_in_content",  \* the content holds no {...} span
     "bad_json_in_content"} \* json.loads rejects the extracted span

Raised(name) == [raised |-> name]

summarize_with_perplexity(sel, key, r) ==
    IF ~key THEN Raised("PerplexityError")
    ELSE IF r.kind = "request_exception" THEN Raised("PerplexityError")
    ELSE IF r.kind = "body_not_json" THEN Raised("JSONDecodeError")
    ELSE IF r.kind \in PerplexityFailures THEN Raised("PerplexityError")
    ELSE IF SanitizeRaises(r.payload) THEN Raised("TypeError")
    ELSE [raised |-> "none",
          digest |-> _sanitize_digest_payload(r.payload, sel),
          usage |-> _token_usage_payload(r.usage)]

build_digest_payload(sel, key, r) ==
    LET res == summarize_with_perplexity(sel, key, r)
    IN  IF res.raised = "none"
        THEN [raised |-> "none", digest |-> res.digest,
              used_fallback |-> FALSE, usage |-> res.usage]
        ELSE IF res.raised = "PerplexityError"
        THEN [raised |-> "none", digest |-> build_fallback_digest(sel),
              used_fallback |-> TRUE, usage |-> ZeroUsage]
        ELSE Raised(res.raised)

(***************************************************************************)
(* load_feeds                                                              *)
(***************************************************************************)
RECURSIVE LoadFeedsLoop(_, _, _)
LoadFeedsLoop(rows, i, acc) ==
    IF i > Len(rows) THEN acc
    ELSE IF strip(rows[i].rss_url) = <<>> THEN LoadFeedsLoop(rows, i + 1, acc)
    ELSE LoadFeedsLoop(rows, i + 1,
                       Append(acc, [name |-> rows[i].name,
                                    url |-> strip(rows[i].rss_url),
                                    notes |-> rows[i].notes]))

load_feeds(rows) == LoadFeedsLoop(rows, 1, <<>>)

(***************************************************************************)
(* _entry_timestamp, in_last_hours, fetch_items.  Instants are seconds.    *)
(* A timestamp field of an entry is absent (None or ""), a text the date   *)
(* parser rejects, or a text it reads as a wall-clock time with or without *)
(* a UTC offset.                                                           *)
(***************************************************************************)
SecondsPerHour == 3600
SecondsPerDay == 86400
\* the offset of the newsletter's time zone, Europe/Paris in winter
NewsletterOffset == 3600

Absent == [kind |-> "absent"]
Unparseable == [kind |-> "bad"]
Naive(wall) == [kind |-> "ok", wall |-> wall, aware |-> FALSE, offset |-> 0]
Aware(wall, offset) == [kind |-> "ok", wall |-> wall, aware |-> TRUE, offset |-> offset]

TimestampKeys == <<"published", "updated", "created", "modified">>

None == [some |-> FALSE, utc |-> 0]
Some(utc) == [some |-> TRUE, utc |-> utc]

\* dt.replace(tzinfo=utc) when naive, then dt.astimezone(utc)
ToUtc(raw) == IF raw.aware THEN raw.wall - raw.offset ELSE raw.wall

\* the mutant of _entry_timestamp that gives up at the first present field
RECURSIVE EntryTimestampFirstPresent(_, _)
EntryTimestampFirstPresent(entry, k) ==
    IF k > Len(TimestampKeys) THEN None
    ELSE LET raw_value == entry[TimestampKeys[k]]
         IN  IF raw_value.kind = "absent" THEN EntryTimestampFirstPresent(entry, k + 1)
             ELSE IF raw_value.kind = "bad" THEN None
             ELSE Some(ToUtc(raw_value))

entry_timestamp_first_present(entry) == EntryTimestampFirstPresent(entry, 1)

\* for key in (...): a falsy value and a value that does not parse both
\* continue with the next key
RECURSIVE EntryTimestampLoop(_, _)
EntryTimestampLoop(entry, k) ==
    IF k > Len(TimestampKeys) THEN None
    ELSE LET raw_value == entry[TimestampKeys[k]]
         IN  IF raw_value.kind = "absent" THEN EntryTimestampLoop(entry, k + 1)
             ELSE IF raw_value.kind = "bad" THEN EntryTimestampLoop(entry, k + 1)
             ELSE Some(ToUtc(raw_value))

_entry_timestamp(entry) == EntryTimestampLoop(entry, 1)

\* the mutant of in_last_hours that excludes the threshold itself
in_last_hours_strict(entry, hrs, clock) ==
    LET timestamp == _entry_timestamp(entry)
    IN  IF ~timestamp.some THEN TRUE
        ELSE timestamp.utc > clock - hrs * SecondsPerHour

\* clock is datetime.now(timezone.utc)
in_last_hours(entry, hrs, clock) ==
    LET timestamp == _entry_timestamp(entry)
    IN  IF ~timestamp.some THEN TRUE
        ELSE timestamp.utc >= clock - hrs * SecondsPerHour

\* any(keyword in notes.lower() ...): notes are texts of opaque words
Paywalled(notes) ==
    \E i \in DOMAIN notes : lower(notes)[i] \in {"paywall", "paywalled", "subscription"}

\* strftime("%d %b %Y") and isoformat() of the instant in the newsletter's zone
PublishedDisplay(utc) == <<"d">> \o Digits((utc + NewsletterOffset) \div SecondsPerDay)
PublishedIso(utc) == <<"i">> \o Digits(utc) \o <<"+">> \o Digits(NewsletterOffset)

\* the item fetch_items appends for an entry it keeps
FetchedItem(feed, entry) ==
    LET published_dt == _entry_timestamp(entry)
    IN  RawItem(feed.name,
                strip(IF entry.title = <<>> THEN <<"(no title)">> ELSE entry.title),
                strip(entry.link),
                IF published_dt.some THEN PublishedDisplay(published_dt.utc)
                ELSE <<"Date unavailable">>,
                IF published_dt.some THEN PublishedIso(published_dt.utc) ELSE <<>>,
                Paywalled(feed.notes))

\* for entry in parsed.entries[:per_feed]
RECURSIVE EntryLoop(_, _, _, _, _, _)
EntryLoop(feed, entries, hrs, clock, j, acc) ==
    IF j > Len(entries) THEN acc
    ELSE IF ~in_last_hours(entries[j], hrs, clock)
         THEN EntryLoop(feed, entries, hrs, clock, j + 1, acc)
    ELSE IF strip(entries[j].link) = <<>>
         THEN EntryLoop(feed, entries, hrs, clock, j + 1, acc)
    ELSE EntryLoop(feed, entries, hrs, clock, j + 1,
                   Append(acc, FetchedItem(feed, entries[j])))

\* the mutant of the loop over the feeds that stops at the first feed whose
\* fetch fails
RECURSIVE FetchLoopAbort(_, _, _, _, _, _, _)
FetchLoopAbort(fds, w, hrs, pf, clock, i, acc) ==
    IF i > Len(fds) THEN acc
    ELSE LET parsed == w[fds[i].url]
             t == clock + parsed.took
         IN  IF ~parsed.ok THEN acc
             ELSE FetchLoopAbort(fds, w, hrs, pf, t, i + 1,
                                 EntryLoop(fds[i], Slice(parsed.entries, pf), hrs, t, 1, acc))

\* for feed in feeds: a fetch that raises is logged and the loop continues;
\* the clock moves on by the time each fetch took
RECURSIVE FetchLoop(_, _, _, _, _, _, _)
FetchLoop(fds, w, hrs, pf, clock, i, acc) ==
    IF i > Len(fds) THEN acc
    ELSE LET parsed == w[fds[i].url]
             t == clock + parsed.took
         IN  IF ~parsed.ok THEN FetchLoop(fds, w, hrs, pf, t, i + 1, acc)
             ELSE FetchLoop(fds, w, hrs, pf, t, i + 1,
                            EntryLoop(fds[i], Slice(parsed.entries, pf), hrs, t, 1, acc))

fetch_items(fds, w, hrs, pf, clock) == FetchLoop(fds, w, hrs, pf, clock, 1, <<>>)

\* the clock when the entries of each feed are judged
RECURSIVE FetchClocks(_, _, _, _)
FetchClocks(fds, w, clock, i) ==
    IF i > Len(fds) THEN <<>>
    ELSE <<clock + w[fds[i].url].took>> \o FetchClocks(fds, w, clock + w[fds[i].url].took, i + 1)

(***************************************************************************)
(* The files and the feeds a run is given.                                 *)
(***************************************************************************)
\* a prompt template file
NoFile == [exists |-> FALSE, text |-> <<>>]
File(text) == [exists |-> TRUE, text |-> text]
PromptsOk == [system |-> File(<<"s">>), user |-> File(<<"u">>)]

\* read_text().strip(): a missing file and a blank file end the run
_load_prompt(file) ==
    IF ~file.exists THEN [raised |-> "SystemExit", msg |-> "Prompt file missing", text |-> <<>>]
    ELSE IF strip(file.text) = <<>>
         THEN [raised |-> "SystemExit", msg |-> "Prompt file is empty", text |-> <<>>]
    ELSE [raised |-> "none", msg |-> "", text |-> strip(file.text)]

\* the defaults of --hours and --per-feed
DefaultHours == 168
DefaultPerFeed == 10

\* the clock of the model's runs
Now0 == 30 * SecondsPerDay

\* what fetching a URL gives: feedparser.parse raises, or returns entries,
\* after some seconds
Failed(took) == [ok |-> FALSE, took |-> took, entries |-> <<>>]
Parsed(took, entries) == [ok |-> TRUE, took |-> took, entries |-> entries]

Entry(title, link, published, updated, created, modified) ==
    [title |-> title, link |-> link, published |-> published, updated |-> updated,
     created |-> created, modified |-> modified]

(***************************************************************************)
(* The inputs the specifications draw from.                                *)
(***************************************************************************)
\* raw items whose keys collide in title case, link case and source
DedupeItems ==
    {RawItem(src, ttl, lnk, <<"d">>, <<"i">>, FALSE) :
        src \in {<<"s">>, <<"S">>},
        ttl \in {<<"A">>, <<"a">>, <<"b">>},
        lnk \in {<<"x">>, <<"X">>}}

\* raw items as fetch_items builds them: the title and the link are stripped,
\* the title may be empty, the source is the feed's name as written
RawSamples ==
    {RawItem(<<"s">>, <<"A", " ", "b">>, <<"x">>, <<"d", "1">>, <<"i", "1">>, FALSE),
     RawItem(<<" ">>, <<"a", " ", "b">>, <<"x">>, <<"Date unavailable">>, <<>>, TRUE),
     RawItem(<<"S">>, <<>>, <<"y">>, <<"d", "3">>, <<"i", "3">>, TRUE)}

\* n raw items with pairwise distinct keys
PoolItem(i) ==
    RawItem(<<"s">>, <<"t">> \o Digits(i), <<"l">> \o Digits(i),
            <<"d">> \o Digits(i), <<"i">> \o Digits(i), i % 2 = 0)

LongList(n) == [i \in 1..n |-> PoolItem(i)]

RawItemLists ==
    SeqsUpTo(RawSamples, MaxDefaultsLen)
    \cup {LongList(n) : n \in (MaxDefaultsLen + 1)..MaxLongList}

\* values of the payload's highlights, of every JSON type
HighlightValues ==
    {JNull, JNum(0), JNum(5), JBool(TRUE), JBool(FALSE),
     JStr(<<>>), JStr(<<"a", ".">>),
     JList(<<>>),
     JList(<<JStr(<<" ", "A", ".", ".", " ">>), JNum(1), JStr(<<" ">>), JNull>>),
     JList(<<JStr(<<".">>)>>),
     JList([i \in 1..(MaxHighlights + 1) |-> JStr(<<"h">> \o Digits(i))]),
     JObj(<<>>),
     JObj(<<<<(<<"k", ".">>), JNum(1)>>>>)}

\* values of an item's tags, of every JSON type
TagValues ==
    <<JNull, JStr(<<"a">>), JNum(1), JList(<<>>), JObj(<<>>),
      JList(<<JNum(1), JStr(<<" ">>), JNull, JStr(<<>>)>>),
      JList(<<JStr(<<" ", "A", " ", "B", " ">>)>>),
      JList(<<JStr(<<"a">>), JNum(2), JStr(<<"A">>), JStr(<<"b", " ", "a">>)>>),
      JList(<<JStr(<<"e">>), JStr(<<"d">>), JStr(<<"c">>), JStr(<<"b">>), JStr(<<"a">>)>>)>>

\* values of a text field of an entry, of every JSON type
FieldValues ==
    <<JNull, JStr(<<>>), JStr(<<" ">>), JStr(<<" ", "T", " ">>), JNum(0), JNum(7),
      JBool(TRUE), JList(<<JNum(1), JStr(<<"a">>)>>), JObj(<<<<(<<"k">>), JNull>>>>)>>

\* an entry of the payload's items with every text field set to x; it also
\* carries the three fields the sanitizer takes from the raw item
EntryWith(x, tags) ==
    JObj(<<<<K_title, x>>, <<K_url, x>>, <<K_source, x>>, <<K_summary, x>>,
           <<K_market_impact, x>>, <<K_action, x>>, <<K_tags, tags>>,
           <<K_paywalled, JBool(TRUE)>>,
           <<K_published_display, JStr(<<"z">>)>>,
           <<K_published_iso, JStr(<<"z">>)>>>>)

\* entries of the payload's items: of a type that is no dict, an empty dict,
\* and dicts with every field set
EntrySamples ==
    {JNum(1), JList(<<>>), JObj(<<>>)}
    \cup {EntryWith(FieldValues[i], TagValues[i]) : i \in DOMAIN FieldValues}

Payload(h, its) == JObj(<<<<K_highlights, h>>, <<K_items, its>>>>)

\* the payloads: every highlights value with no items, the items missing,
\* of a type that is no list, and every short list of entries
PayloadSamples ==
    {Payload(h, JList(<<>>)) : h \in HighlightValues}
    \cup {JObj(<<>>), Payload(JNull, JNum(3)), Payload(JNull, JStr(<<"a">>)),
          Payload(JNull, EntryWith(JStr(<<"T">>), JNull))}
    \cup {Payload(JList(<<JStr(<<"h">>)>>), JList(l)) :
            l \in SeqsUpTo(EntrySamples, MaxPayloadItems) \ {<<>>}}

\* values of --topn
TopnSamples == {-1, 0, 1, MaxDigestItems, MaxDigestItems + 1}

\* the token usage of an answer
UsageSamples ==
    {JNull,
     JObj(<<<<(<<"prompt_tokens">>), JNum(3)>>, <<(<<"completion_tokens">>), JNum(2)>>,
            <<(<<"total_tokens">>), JNum(0)>>>>)}

\* the answers of the endpoint in the model of main
ResponseSamples ==
    {[kind |-> k] : k \in PerplexityFailures \cup {"body_not_json"}}
    \cup {[kind |-> "payload", payload |-> Payload(h, JList(<<>>)), usage |-> JNull] :
            h \in HighlightValues}
    \cup {[kind |-> "payload",
           payload |-> Payload(JNull, JList(<<EntryWith(FieldValues[i], TagValues[i])>>)),
           usage |-> u] : i \in DOMAIN FieldValues, u \in UsageSamples}

\* the rows of the feed configuration file
CsvSamples ==
    {<<>>,
     <<[name |-> <<"f">>, rss_url |-> <<" ">>, notes |-> <<>>]>>,
     <<[name |-> <<"f">>, rss_url |-> <<" ", "u">>, notes |-> <<"paywall">>],
       [name |-> <<"g">>, rss_url |-> <<>>, notes |-> <<>>]>>,
     <<[name |-> <<"f">>, rss_url |-> <<"u">>, notes |-> <<>>],
       [name |-> <<"g">>, rss_url |-> <<"v", " ">>, notes |-> <<"subscription">>]>>}

\* the feed configuration file: missing, or a file with rows
CsvFiles == {NoFile} \cup {File(rows) : rows \in CsvSamples}

\* the two prompt template files: both fine, or one missing or blank
PromptSamples ==
    {PromptsOk,
     [PromptsOk EXCEPT !.system = NoFile],
     [PromptsOk EXCEPT !.system = File(<<" ">>)],
     [PromptsOk EXCEPT !.user = NoFile],
     [PromptsOk EXCEPT !.user = File(<<>>)]}

\* the i-th entry of a feed in the model of main: no two have the same key;
\* the even ones carry a date inside the window
MainEntry(i) ==
    Entry(<<"t">> \o Digits(i), <<"l">> \o Digits(i),
          IF i % 2 = 0 THEN Naive(Now0 - i * SecondsPerHour) ELSE Absent,
          Absent, Absent, Absent)

MainEntries(a, b) == [k \in 1..(b - a + 1) |-> MainEntry(a + k - 1)]

\* what the two URLs of the configuration serve in the model of main: the
\* first a failure, nothing, two entries with one key, an entry outside the
\* window, or more entries than --per-feed; the second a failure, nothing or
\* the entries that bring the total to MaxLongList
WebSamples ==
    {[url \in {<<"u">>, <<"v">>} |-> IF url = <<"u">> THEN u ELSE v] :
        u \in {Failed(0), Parsed(0, <<>>),
               Parsed(0, <<Entry(<<"A">>, <<"x">>, Absent, Absent, Absent, Absent),
                           Entry(<<" ", "a">>, <<"x", " ">>, Unparseable, Absent, Absent,
                                 Absent)>>),
               Parsed(0, <<Entry(<<>>, <<"y">>, Aware(Now0 - DefaultHours * SecondsPerHour, 1),
                                 Absent, Absent, Absent)>>),
               Parsed(0, MainEntries(1, DefaultPerFeed + 1))},
        v \in {Failed(0), Parsed(0, <<>>),
               Parsed(0, MainEntries(DefaultPerFeed + 1, MaxLongList))}}

\* values of MAIL_TO: the pieces between its commas
MailToPieces == {<<>>, <<" ">>, <<"a">>, <<" ", "A">>, <<"b", " ">>}

RECURSIVE JoinComma(_, _)
JoinComma(l, i) ==
    IF i > Len(l) THEN <<>>
    ELSE (IF i > 1 THEN <<",">> ELSE <<>>) \o l[i] \o JoinComma(l, i + 1)

MailToSamples == {JoinComma(l, 1) : l \in SeqsUpTo(MailToPieces, MaxMailToPieces)}

\* the emails of the rows of the roster file
RosterSamples == SeqsUpTo({<<>>, <<"a">>, <<"A">>, <<"c">>}, MaxRoster)

(***************************************************************************)
(* The run of main.                                                        *)
(***************************************************************************)
NoDigest == [highlights |-> <<>>, items |-> <<>>]
NoBody == [fallback_notice |-> FALSE, article_count |-> 0, highlights |-> <<>>,
           cards |-> <<>>, empty_card |-> FALSE]
\* an exception that ends the run: its class, the function that raised it and
\* what the interpreter prints
Exc(name, in, msg) == [name |-> name, in |-> in, msg |-> msg]
NoExc == Exc("none", "none", "")

\* the status the process ends with: an uncaught exception and SystemExit with
\* a text both give 1
ExitCode(e) == IF e.name = "none" THEN 0 ELSE 1

\* what the run is given
EnvIs(pr, csv, w, h, pf, t) ==
    /\ prompts = pr
    /\ csv_file = csv
    /\ web = w
    /\ hours = h
    /\ per_feed = pf
    /\ now = t

\* main is at stage p with the given values and nothing sent yet
RunAt(p, tn, f, its, sel, key, r, dg, bd, sj, mt, ro) ==
    /\ pc = p
    /\ topn = tn
    /\ feeds = <<>>
    /\ fetched = f
    /\ items = its
    /\ selected = sel
    /\ api_key = key
    /\ response = r
    /\ digest = dg
    /\ used_fallback = FALSE
    /\ usage = ZeroUsage
    /\ body = bd
    /\ subject = sj
    /\ mail_to = mt
    /\ roster = ro
    /\ outbox = <<>>
    /\ requests = 0
    /\ exc = NoExc
    /\ fetch_log = <<>>
    /\ smtp = "none"
    /\ smtp_sessions = 0
    /\ sent = 0
    /\ stages = <<>>

\* the state in which main is at stage p with the given values, the default
\* arguments and nothing built yet
StateAt(p, tn, f, its, sel, key, r, dg, bd, sj, mt, ro) ==
    /\ EnvIs(PromptsOk, File(<<>>), <<>>, DefaultHours, DefaultPerFeed, Now0)
    /\ RunAt(p, tn, f, its, sel, key, r, dg, bd, sj, mt, ro)

\* the module is imported, then main is called: the files, the arguments and
\* the environment are given
Init ==
    \E tn \in TopnSamples, key \in BOOLEAN, mt \in {<<>>, <<"a", ",", " ", "b">>},
       pr \in PromptSamples, csv \in CsvFiles, w \in WebSamples :
        /\ EnvIs(pr, csv, w, DefaultHours, DefaultPerFeed, Now0)
        /\ RunAt("import", tn, <<>>, <<>>, <<>>, key, NoResponse, NoDigest, NoBody,
                 "", mt, <<>>)

\* SYSTEM_PROMPT = _load_prompt(...); USER_PROMPT_TEMPLATE = _load_prompt(...):
\* run when the module is imported, before main
LoadPrompts ==
    /\ pc = "import"
    /\ LET sys == _load_prompt(prompts.system)
           usr == _load_prompt(prompts.user)
       IN  IF sys.raised # "none"
           THEN /\ pc' = "exit"
                /\ exc' = Exc(sys.raised, "_load_prompt", sys.msg)
           ELSE IF usr.raised # "none"
           THEN /\ pc' = "exit"
                /\ exc' = Exc(usr.raised, "_load_prompt", usr.msg)
           ELSE /\ pc' = "start"
                /\ exc' = exc
    /\ UNCHANGED <<topn, feeds, fetched, items, selected, api_key, response, digest,
                   used_fallback, usage, body, subject, mail_to, roster, outbox,
                   requests, env, fetch_log, smtp, smtp_sessions, sent, stages>>

\* the mutant of LoadFeeds that goes on without a feed
LoadFeedsNoCheck ==
    /\ pc = "start"
    /\ stages' = Append(stages, "load_feeds")
    /\ IF ~csv_file.exists
       THEN /\ pc' = "exit"
            /\ exc' = Exc("FileNotFoundError", "load_feeds", "Traceback")
            /\ feeds' = feeds
       ELSE /\ feeds' = load_feeds(csv_file.text)
            /\ pc' = "loaded"
            /\ exc' = exc
    /\ UNCHANGED <<topn, fetched, items, selected, api_key, response, digest,
                   used_fallback, usage, body, subject, mail_to, roster, outbox,
                   requests, env, fetch_log, smtp, smtp_sessions, sent>>

\* feeds = load_feeds(args.csv): open() raises when the file is missing; no
\* feed ends the run
LoadFeeds ==
    /\ pc = "start"
    /\ stages' = Append(stages, "load_feeds")
    /\ IF ~csv_file.exists
       THEN /\ pc' = "exit"
            /\ exc' = Exc("FileNotFoundError", "load_feeds", "Traceback")
            /\ feeds' = feeds
       ELSE /\ feeds' = load_feeds(csv_file.text)
            /\ IF load_feeds(csv_file.text) = <<>>
               THEN /\ pc' = "exit"
                    /\ exc' = Exc("SystemExit", "main", "No feeds found")
               ELSE /\ pc' = "loaded"
                    /\ exc' = exc
    /\ UNCHANGED <<topn, fetched, items, selected, api_key, response, digest,
                   used_fallback, usage, body, subject, mail_to, roster, outbox,
                   requests, env, fetch_log, smtp, smtp_sessions, sent>>

\* fetch_items(feeds, hours=args.hours, per_feed=args.per_feed)
FetchItems ==
    /\ pc = "loaded"
    /\ fetched' = fetch_items(feeds, web, hours, per_feed, now)
    /\ fetch_log' = FetchClocks(feeds, web, now, 1)
    /\ stages' = Append(stages, "fetch")
    /\ pc' = "fetched"
    /\ UNCHANGED <<topn, feeds, items, selected, api_key, response, digest,
                   used_fallback, usage, body, subject, mail_to, roster, outbox,
                   requests, exc, env, smtp, smtp_sessions, sent>>

\* items = dedupe(...)
Dedupe ==
    /\ pc = "fetched"
    /\ items' = dedupe(fetched)
    /\ stages' = Append(stages, "dedupe")
    /\ pc' = "deduped"
    /\ UNCHANGED <<topn, feeds, fetched, selected, api_key, response, digest,
                   used_fallback, usage, body, subject, mail_to, roster, outbox,
                   requests, exc, env, fetch_log, smtp, smtp_sessions, sent>>

\* the mutant of SubjectSuffix that marks every email without remote
\* summaries as headlines
SubjectSuffixHeadlines(no_items, fallback) ==
    IF no_items \/ fallback THEN "(headlines)" ELSE ""

\* what main appends to "Weekly Digest - Week NN"
SubjectSuffix(no_items, fallback) ==
    IF no_items THEN "(no new items)"
    ELSE IF fallback THEN "(headlines)"
    ELSE ""

\* the mutant of QuietPath that renders the placeholder digest without the
\* fallback flag
QuietPathNoNotice ==
    /\ pc = "deduped"
    /\ items = <<>>
    /\ digest' = QuietDigest
    /\ body' = render_email(QuietDigest, FALSE)
    /\ subject' = SubjectSuffix(TRUE, used_fallback)
    /\ stages' = Append(stages, "render")
    /\ pc' = "rendered"
    /\ UNCHANGED <<topn, feeds, fetched, items, selected, api_key, response,
                   used_fallback, usage, mail_to, roster, outbox, requests, exc,
                   env, fetch_log, smtp, smtp_sessions, sent>>

\* if not items: the placeholder digest is rendered with used_fallback=True
QuietPath ==
    /\ pc = "deduped"
    /\ items = <<>>
    /\ digest' = QuietDigest
    /\ body' = render_email(QuietDigest, TRUE)
    /\ subject' = SubjectSuffix(TRUE, used_fallback)
    /\ stages' = Append(stages, "render")
    /\ pc' = "rendered"
    /\ UNCHANGED <<topn, feeds, fetched, items, selected, api_key, response,
                   used_fallback, usage, mail_to, roster, outbox, requests, exc,
                   env, fetch_log, smtp, smtp_sessions, sent>>

\* selected = items[:min(args.topn, 10)]
SelectItems ==
    /\ pc = "deduped"
    /\ items # <<>>
    /\ selected' = Select(items, topn)
    /\ pc' = "selected"
    /\ UNCHANGED <<topn, feeds, fetched, items, api_key, response, digest,
                   used_fallback, usage, body, subject, mail_to, roster, outbox,
                   requests, exc, env, fetch_log, smtp, smtp_sessions, sent, stages>>

\* the stages build_digest_payload goes through
BuildStages(res) ==
    IF res.raised = "JSONDecodeError" THEN <<"summarize">>
    ELSE IF res.raised = "TypeError" THEN <<"summarize", "sanitize">>
    ELSE IF res.used_fallback THEN <<"summarize", "fallback">>
    ELSE <<"summarize", "sanitize">>

\* digest, used_fallback, usage = build_digest_payload(selected, args.hours);
\* a request is issued when the API key is set
BuildDigest ==
    /\ pc = "selected"
    /\ \E r \in (IF api_key THEN ResponseSamples ELSE {NoResponse}) :
          LET res == build_digest_payload(selected, api_key, r)
          IN  /\ response' = r
              /\ stages' = stages \o BuildStages(res)
              /\ IF res.raised = "none"
                 THEN /\ digest' = res.digest
                      /\ used_fallback' = res.used_fallback
                      /\ usage' = res.usage
                      /\ pc' = "built"
                      /\ exc' = exc
                 ELSE /\ pc' = "exit"
                      /\ exc' = Exc(res.raised, "build_digest_payload", "Traceback")
                      /\ UNCHANGED <<digest, used_fallback, usage>>
    /\ requests' = IF api_key THEN requests + 1 ELSE requests
    /\ UNCHANGED <<topn, feeds, fetched, items, selected, api_key, body, subject,
                   mail_to, roster, outbox, env, fetch_log, smtp, smtp_sessions, sent>>

\* body = render_email(digest, ...); the subject gets its suffix
Render ==
    /\ pc = "built"
    /\ body' = render_email(digest, used_fallback)
    /\ subject' = SubjectSuffix(FALSE, used_fallback)
    /\ stages' = Append(stages, "render")
    /\ pc' = "rendered"
    /\ UNCHANGED <<topn, feeds, fetched, items, selected, api_key, response,
                   digest, used_fallback, usage, mail_to, roster, outbox,
                   requests, exc, env, fetch_log, smtp, smtp_sessions, sent>>

\* how the one SMTP session of send_email can go: SMTP_SSL(...) cannot reach
\* the relay (the socket raises OSError), the relay refuses the connection
\* with an SMTP reply, login or send_message is refused, or all three succeed
SmtpOutcomes ==
    {"ok", "connect_unreachable", "connect_refused", "login_refused", "send_refused"}

\* what the session raises inside the try block
SmtpRaises(outcome) ==
    CASE outcome = "ok" -> "none"
      [] outcome = "connect_unreachable" -> "OSError"
      [] OTHER -> "SMTPException"

\* except smtplib.SMTPException: raise RuntimeError; return len(recipients)
send_email(recipients, outcome) ==
    IF SmtpRaises(outcome) = "SMTPException"
    THEN [raised |-> "RuntimeError", returned |-> 0]
    ELSE IF SmtpRaises(outcome) # "none"
    THEN [raised |-> SmtpRaises(outcome), returned |-> 0]
    ELSE [raised |-> "none", returned |-> Len(recipients)]

\* sent = send_email(body, subject): the recipients come from
\* _mail_recipients(); one SMTP session is opened
SendEmail ==
    /\ pc = "rendered"
    /\ stages' = Append(stages, "send")
    /\ IF _mail_recipients(mail_to) = <<>>
       THEN /\ pc' = "exit"
            /\ exc' = Exc("SystemExit", "_mail_recipients", "MAIL_TO is empty")
            /\ UNCHANGED <<outbox, smtp, smtp_sessions, sent>>
       ELSE \E outcome \in SmtpOutcomes :
               LET res == send_email(_mail_recipients(mail_to), outcome)
               IN  /\ smtp' = outcome
                   /\ smtp_sessions' = smtp_sessions + 1
                   /\ IF res.raised = "none"
                      THEN /\ outbox' = Append(outbox, [to |-> _mail_recipients(mail_to),
                                                        subject |-> subject,
                                                        body |-> body])
                           /\ sent' = res.returned
                           /\ pc' = "done"
                           /\ exc' = exc
                      ELSE /\ pc' = "exit"
                           /\ exc' = Exc(res.raised, "send_email", "Traceback")
                           /\ UNCHANGED <<outbox, sent>>
    /\ UNCHANGED <<topn, feeds, fetched, items, selected, api_key, response,
                   digest, used_fallback, usage, body, subject, mail_to, roster,
                   requests, env, fetch_log>>

Next ==
    \/ LoadPrompts
    \/ LoadFeeds
    \/ FetchItems
    \/ Dedupe
    \/ QuietPath
    \/ SelectItems
    \/ BuildDigest
    \/ Render
    \/ SendEmail

Spec == Init /\ [][Next]_vars

(***************************************************************************)
(* dedupe on its own: every short list of colliding raw items is given to  *)
(* the step of main that de-duplicates.                                    *)
(***************************************************************************)
InitDedupe ==
    \E f \in SeqsUpTo(DedupeItems, MaxDedupeLen) :
        StateAt("fetched", MaxDigestItems, f, <<>>, <<>>, TRUE, NoResponse,
                NoDigest, NoBody, "", <<"a">>, <<>>)

NextDedupe == Dedupe

SpecDedupe == InitDedupe /\ [][NextDedupe]_vars

(***************************************************************************)
(* The sanitizer and the fallback builder on their own: a parsed payload   *)
(* and a list of raw items are given to each.                              *)
(***************************************************************************)
\* a payload whose items are n dicts with every field set
LongPayload(n) ==
    Payload(JNull, JList([i \in 1..n |-> EntryWith(JStr(<<"T">> \o Digits(i)), JNull)]))

InitSanitize ==
    \E pl \in PayloadSamples \cup {LongPayload(MaxLongList)}, sel \in RawItemLists :
        /\ \/ Len(sel) <= MaxDefaultsLen
           \/ pl \in {Payload(h, JList(<<>>)) : h \in HighlightValues}
                     \cup {LongPayload(MaxLongList)}
        /\ StateAt("selected", MaxDigestItems, sel, sel, sel, TRUE,
                   [kind |-> "payload", payload |-> pl, usage |-> JNull],
                   NoDigest, NoBody, "", <<"a">>, <<>>)

\* digest = _sanitize_digest_payload(payload_json, items)
Sanitize ==
    /\ pc = "selected"
    /\ IF SanitizeRaises(response.payload)
       THEN /\ pc' = "exit"
            /\ exc' = Exc("TypeError", "_sanitize_digest_payload", "Traceback")
            /\ digest' = digest
       ELSE /\ pc' = "sanitized"
            /\ digest' = _sanitize_digest_payload(response.payload, selected)
            /\ exc' = exc
    /\ UNCHANGED <<topn, feeds, fetched, items, selected, api_key, response,
                   used_fallback, usage, body, subject, mail_to, roster, outbox,
                   requests, env, fetch_log, smtp, smtp_sessions, sent, stages>>

\* digest = build_fallback_digest(items)
Fallback ==
    /\ pc = "selected"
    /\ pc' = "fallback_built"
    /\ digest' = build_fallback_digest(selected)
    /\ UNCHANGED <<topn, feeds, fetched, items, selected, api_key, response,
                   used_fallback, usage, body, subject, mail_to, roster, outbox,
                   requests, exc, env, fetch_log, smtp, smtp_sessions, sent, stages>>

NextSanitize == Sanitize \/ Fallback

SpecSanitize == InitSanitize /\ [][NextSanitize]_vars

(***************************************************************************)
(* send_email on its own: a rendered email, a value of MAIL_TO and a       *)
(* roster file are given.                                                  *)
(***************************************************************************)
InitMail ==
    \E mt \in MailToSamples, ro \in RosterSamples :
        StateAt("rendered", MaxDigestItems, <<>>, <<>>, <<>>, TRUE, NoResponse,
                QuietDigest, render_email(QuietDigest, TRUE), "(no new items)",
                mt, ro)

NextMail == SendEmail

SpecMail == InitMail /\ [][NextMail]_vars

(***************************************************************************)
(* fetch_items on its own: three feeds are configured; the second serves   *)
(* every short list of entries whose timestamp fields are absent,          *)
(* unparseable, at the clock, at the edge of a 24-hour window or one       *)
(* second beyond it; the first and the third fail or serve one entry.      *)
(***************************************************************************)
DayAgo == Now0 - 24 * SecondsPerHour

\* the timestamp fields of the entries: published, updated, created, modified
StampSamples ==
    <<<<Absent, Absent, Absent, Absent>>,
      <<Unparseable, Absent, Absent, Absent>>,
      <<Unparseable, Unparseable, Unparseable, Unparseable>>,
      <<Naive(Now0), Absent, Absent, Absent>>,
      <<Naive(Now0 + 1), Absent, Absent, Absent>>,
      <<Naive(DayAgo), Absent, Absent, Absent>>,
      <<Naive(DayAgo - 1), Absent, Absent, Absent>>,
      <<Aware(DayAgo + SecondsPerHour, SecondsPerHour), Absent, Absent, Absent>>,
      <<Unparseable, Naive(DayAgo - 1), Absent, Absent>>,
      <<Absent, Naive(Now0), Naive(DayAgo - 1), Absent>>,
      <<Absent, Unparseable, Absent, Aware(DayAgo, SecondsPerHour)>>,
      <<Naive(DayAgo - 1), Naive(Now0), Absent, Absent>>>>

\* the k-th entry: its title and link tell it from the others
StampedEntry(k, link) ==
    Entry(<<"k">> \o Digits(k), link, StampSamples[k][1], StampSamples[k][2],
          StampSamples[k][3], StampSamples[k][4])

FetchEntries ==
    {StampedEntry(k, <<" ", "l">> \o Digits(k)) : k \in DOMAIN StampSamples}
    \cup {StampedEntry(1, <<>>), StampedEntry(4, <<" ">>)}

\* the configuration of three feeds
FetchCsv ==
    File(<<[name |-> <<"f">>, rss_url |-> <<"u">>, notes |-> <<>>],
           [name |-> <<"g">>, rss_url |-> <<"v">>, notes |-> <<"paywalled">>],
           [name |-> <<"h">>, rss_url |-> <<"x">>, notes |-> <<>>]>>)

\* what the three URLs serve
FetchWebs ==
    {[url \in {<<"u">>, <<"v">>, <<"x">>} |->
         IF url = <<"u">> THEN u ELSE IF url = <<"v">> THEN v ELSE x] :
        u \in {Failed(1), Parsed(0, <<StampedEntry(6, <<"a">>)>>)},
        v \in {Failed(0), Failed(1)}
              \cup {Parsed(t, es) : t \in {0, 1}, es \in SeqsUpTo(FetchEntries, MaxFeedEntries)},
        x \in {Failed(0), Parsed(0, <<StampedEntry(4, <<"b">>), StampedEntry(7, <<"c">>)>>)}}

\* values of --hours and --per-feed
HoursSamples == {0, 24}
PerFeedSamples == {1, DefaultPerFeed}

InitFetch ==
    \E w \in FetchWebs, h \in HoursSamples, pf \in PerFeedSamples :
        /\ EnvIs(PromptsOk, FetchCsv, w, h, pf, Now0)
        /\ RunAt("start", MaxDigestItems, <<>>, <<>>, <<>>, TRUE, NoResponse,
                 NoDigest, NoBody, "", <<"a">>, <<>>)

NextFetch == LoadFeeds \/ FetchItems

SpecFetch == InitFetch /\ [][NextFetch]_vars

(***************************************************************************)
(* Properties.                                                             *)
(***************************************************************************)
Min(a, b) == IF a < b THEN a ELSE b

\* two raw items have the same lowercased title and the same exact link
SameKey(a, b) == lower(a.title) = lower(b.title) /\ a.link = b.link

\* the positions of an input whose key occurs at no earlier position
FirstOccurrences(its) ==
    {i \in DOMAIN its : \A j \in 1..(i - 1) : ~SameKey(its[j], its[i])}

\* C1: dedupe returns the subsequence of its input made of the first item of
\* every (lowercased title, exact link) key, in input order: the k-th kept
\* item is the input item at the k-th position that starts a new key, and
\* nothing else is kept.
C1_DedupeKeepsFirstOfEachKey ==
    pc = "deduped" =>
        /\ Len(items) = Cardinality(FirstOccurrences(fetched))
        /\ \A i \in FirstOccurrences(fetched) :
              items[Cardinality({j \in FirstOccurrences(fetched) : j <= i})] = fetched[i]
        /\ \A k, l \in DOMAIN items : k # l => ~SameKey(items[k], items[l])

\* dedupe dropped a later item whose title differs from the first only in
\* case, and kept the first
C1_Witness ==
    /\ pc = "deduped"
    /\ Len(fetched) = 3
    /\ Len(items) = 2
    /\ fetched[1].title # fetched[3].title
    /\ fetched[1].source # fetched[3].source
    /\ SameKey(fetched[1], fetched[3])
    /\ items = <<fetched[1], fetched[2]>>

\* the recipient list the roster file and MAIL_TO give by the rule of the
\* claim: the roster's emails, blank rows skipped and de-duplicated without
\* regard to case, then the addresses of MAIL_TO that are not yet present
RECURSIVE AppendUnseen(_, _, _)
AppendUnseen(acc, l, i) ==
    IF i > Len(l) THEN acc
    ELSE IF strip(l[i]) = <<>>
            \/ \E k \in DOMAIN acc : lower(acc[k]) = lower(strip(l[i]))
         THEN AppendUnseen(acc, l, i + 1)
         ELSE AppendUnseen(Append(acc, strip(l[i])), l, i + 1)

ClaimedRecipients(ro, mt) == AppendUnseen(AppendUnseen(<<>>, ro, 1), split_comma(mt), 1)

\* C2: the message is sent to the roster's emails followed by the addresses
\* of MAIL_TO, de-duplicated without regard to case.
C2_RecipientsAreRosterThenMailTo ==
    pc = "done" => outbox[Len(outbox)].to = ClaimedRecipients(roster, mail_to)

\* the answers the claim lists as a failed remote summarisation
C3_FailedRemote ==
    \/ ~api_key
    \/ response.kind \in PerplexityFailures \cup {"body_not_json"}

\* C3: when the remote summarisation yields no parseable digest (no API key,
\* a network or HTTP error, no choices, empty content, a body or a content
\* that does not parse as JSON), build_digest_payload returns the fallback
\* digest with used_fallback set and zero usage, and the run goes on.
C3_FailedRemoteGivesFallback ==
    ((pc = "built" \/ exc.in = "build_digest_payload") /\ C3_FailedRemote) =>
        /\ pc = "built"
        /\ exc = NoExc
        /\ used_fallback
        /\ usage = ZeroUsage
        /\ digest = build_fallback_digest(selected)

\* C4: the digest build_digest_payload returns has min(number of selected
\* raw items, 10) items, on the sanitized path and on the fallback path.
C4_ItemCountIsMinOfSelectedAndTen ==
    pc = "built" => Len(digest.items) = Min(Len(selected), MaxDigestItems)

\* C5: every digest of the sanitizer and of the fallback builder has at
\* least one highlight, whatever the payload and the raw items.
C5_HighlightsNeverEmpty ==
    pc \in {"sanitized", "fallback_built"} => digest.highlights # <<>>

\* the payload's dict for the i-th raw item, as the run was given it
GivenEntry(i) == Candidate(PayloadItems(response.payload), i)

\* a payload value that is absent, null, or a string that is empty or
\* whitespace only
AbsentOrBlank(x) == x.t = "null" \/ (x.t = "str" /\ strip(x.v) = <<>>)

\* C6: in every item of the sanitizer, a text field whose payload value is
\* absent or blank holds its default (the raw item's title, link or source,
\* or the fixed text), and no text field is empty when the raw item's
\* title, link and source are not.
C6_FieldsPopulated ==
    pc = "sanitized" =>
        \A i \in DOMAIN digest.items :
            LET c == GivenEntry(i)
                b == selected[i]
                it == digest.items[i]
            IN  /\ AbsentOrBlank(Get(c, K_title)) => it.title = b.title
                /\ AbsentOrBlank(Get(c, K_url)) => it.url = b.link
                /\ AbsentOrBlank(Get(c, K_source)) => it.source = b.source
                /\ AbsentOrBlank(Get(c, K_summary)) => it.summary = DefaultSummary
                /\ AbsentOrBlank(Get(c, K_market_impact)) =>
                       it.market_impact = DefaultMarketImpact
                /\ AbsentOrBlank(Get(c, K_action)) => it.action = DefaultAction
                /\ (b.title # <<>> /\ b.link # <<>> /\ b.source # <<>>) =>
                       /\ it.title # <<>>
                       /\ it.url # <<>>
                       /\ it.source # <<>>
                       /\ it.summary # <<>>
                       /\ it.market_impact # <<>>
                       /\ it.action # <<>>

\* C7: the sanitizer returns a digest for every JSON object payload; it
\* raises nothing, whatever the types of the payload's parts.
C7_SanitizerNeverRaises ==
    exc.in # "_sanitize_digest_payload"

\* C8: at every position of the sanitized digest, paywalled, published_display
\* and published_iso are those of the raw item at that position, whatever the
\* payload gives for them.
C8_BaseFieldsComeFromRawItem ==
    pc = "sanitized" =>
        \A i \in DOMAIN digest.items :
            /\ digest.items[i].paywalled = selected[i].paywalled
            /\ digest.items[i].published_display = selected[i].published_display
            /\ digest.items[i].published_iso = selected[i].published_iso

\* the payload gives other values for the three fields of the first item,
\* and the digest holds the raw item's
C8_Witness ==
    /\ pc = "sanitized"
    /\ Len(digest.items) >= 1
    /\ GivenEntry(1).t = "obj"
    /\ Get(GivenEntry(1), K_paywalled) = JBool(TRUE)
    /\ ~selected[1].paywalled
    /\ Get(GivenEntry(1), K_published_display) = JStr(<<"z">>)
    /\ ~digest.items[1].paywalled
    /\ digest.items[1].published_display = selected[1].published_display
    /\ digest.items[1].published_display # <<"z">>

\* a tags value with no usable entry: no list, or a list without a string
\* that is not blank
NoUsableTag(x) ==
    \/ x.t # "list"
    \/ \A k \in DOMAIN x.v : x.v[k].t # "str" \/ strip(x.v[k].v) = <<>>

\* C9: an item whose payload tags are no list, or a list with no non-blank
\* string, gets exactly the default tag; the tags of an item are never empty.
C9_DefaultTag ==
    pc = "sanitized" =>
        \A i \in DOMAIN digest.items :
            /\ digest.items[i].tags # <<>>
            /\ NoUsableTag(Get(GivenEntry(i), K_tags)) =>
                   digest.items[i].tags = <<DefaultTag>>

\* the payload's tags are a string, not a list, or a list of blanks and
\* numbers, and the item got the default tag
C9_Witness ==
    /\ pc = "sanitized"
    /\ Len(digest.items) >= 2
    /\ Get(GivenEntry(1), K_tags).t = "str"
    /\ Truthy(Get(GivenEntry(1), K_tags))
    /\ digest.items[1].tags = <<DefaultTag>>
    /\ Get(GivenEntry(2), K_tags).t = "list"
    /\ Truthy(Get(GivenEntry(2), K_tags))
    /\ digest.items[2].tags = <<DefaultTag>>

\* the positions of a tags list that hold a non-blank string
UsableTags(x) ==
    IF x.t = "list"
    THEN {k \in DOMAIN x.v : x.v[k].t = "str" /\ strip(x.v[k].v) # <<>>}
    ELSE {}

\* a slug holds no space and no upper-case letter
IsSlug(tag) == \A k \in DOMAIN tag : tag[k] # " " /\ LowerChar(tag[k]) = tag[k]

\* the tags are at most four slugs, the slugs of the first usable entries of
\* the payload's tags in their order, or the default tag when there is none
TagsFollowPayload(tags, x) ==
    /\ Len(tags) <= MaxTags
    /\ \A k \in DOMAIN tags : IsSlug(tags[k])
    /\ IF UsableTags(x) = {}
       THEN tags = <<DefaultTag>>
       ELSE /\ Len(tags) = Min(Cardinality(UsableTags(x)), MaxTags)
            /\ \A u \in UsableTags(x) :
                  LET k == Cardinality({w \in UsableTags(x) : w <= u})
                  IN  k <= MaxTags =>
                          tags[k] = replace_space(lower(strip(x.v[u].v)))

\* C10, as stated: the tags of an item are at most four lower-case slugs in
\* payload order, and no slug occurs twice.
C10_TagsAreOrderedSet ==
    pc = "sanitized" =>
        \A i \in DOMAIN digest.items :
            /\ TagsFollowPayload(digest.items[i].tags, Get(GivenEntry(i), K_tags))
            /\ \A k, l \in DOMAIN digest.items[i].tags :
                  k # l => digest.items[i].tags[k] # digest.items[i].tags[l]

\* C10, amended: the tags of an item are at most four lower-case slugs, each
\* the lowercased, stripped, space-to-hyphen form of a usable payload tag, in
\* payload order; a slug may occur more than once.
C10_TagsAreOrderedSlugs ==
    pc = "sanitized" =>
        \A i \in DOMAIN digest.items :
            TagsFollowPayload(digest.items[i].tags, Get(GivenEntry(i), K_tags))

\* five usable tags were given and four slugs kept; and a tag with spaces
\* and capitals became one slug
C10_Witness ==
    /\ pc = "sanitized"
    /\ Len(digest.items) >= 2
    /\ Cardinality(UsableTags(Get(GivenEntry(1), K_tags))) > MaxTags
    /\ Len(digest.items[1].tags) = MaxTags
    /\ Get(GivenEntry(2), K_tags) = JList(<<JStr(<<" ", "A", " ", "B", " ">>)>>)
    /\ digest.items[2].tags = <<(<<"a", "-", "b">>)>>

(***************************************************************************)
(* Fetching.                                                               *)
(***************************************************************************)
\* the entries fetch_items looks at in the i-th feed, none when its fetch failed
Considered(i) ==
    LET parsed == web[feeds[i].url]
    IN  IF parsed.ok THEN Slice(parsed.entries, per_feed) ELSE <<>>

\* the (feed, entry) positions whose entry a rule keeps, the entries of the
\* i-th feed being judged at the clock fetch_log[i]
KeptPositions(Keeps(_, _)) ==
    {p \in UNION {{<<i, j>> : j \in DOMAIN Considered(i)} : i \in DOMAIN feeds} :
        Keeps(Considered(p[1])[p[2]], fetch_log[p[1]])}

\* the place in the result of the entry at position p among the kept ones
RankIn(K, p) ==
    Cardinality({q \in K : q[1] < p[1] \/ (q[1] = p[1] /\ q[2] <= p[2])})

\* fetched holds exactly the entries a rule keeps, in the order of the feeds
\* and of the entries, each under its stripped link and its feed's name
FetchedAre(Keeps(_, _)) ==
    LET K == KeptPositions(Keeps)
    IN  /\ Len(fetched) = Cardinality(K)
        /\ \A p \in K :
              /\ fetched[RankIn(K, p)].link = strip(Considered(p[1])[p[2]].link)
              /\ fetched[RankIn(K, p)].source = feeds[p[1]].name

\* a link is there when something is left of it once stripped
HasLink(e) == strip(e.link) # <<>>

\* C11's rule: a link, and no parseable timestamp or one inside the window
C11_Keeps(e, clock) ==
    /\ HasLink(e)
    /\ \/ ~_entry_timestamp(e).some
       \/ _entry_timestamp(e).utc >= clock - hours * SecondsPerHour

\* C11: an entry fetch_items looks at is retained exactly when its link is not
\* empty (once stripped, as the code stores it) and it has no parseable
\* timestamp or its timestamp is >= now - window: the result of fetch_items
\* is the list of the entries that satisfy this, and no other.
C11_RetainedIffLinkAndInWindow ==
    pc = "fetched" => FetchedAre(C11_Keeps)

\* C11's three cases, all in one fetch with a 24-hour window and no delay: an
\* entry stamped at the clock is kept, one stamped a second before the window
\* is dropped, one without a timestamp is kept
C11_Witness ==
    /\ pc = "fetched"
    /\ hours = 24
    /\ fetch_log[3] = Now0
    /\ Considered(3) = <<StampedEntry(4, <<"b">>), StampedEntry(7, <<"c">>)>>
    /\ Considered(2) = <<StampedEntry(1, <<" ", "l", "1">>), StampedEntry(6, <<" ", "l", "6">>)>>
    /\ Len(fetched) = 4
    /\ fetched[1].link = <<"a">>
    /\ fetched[2].link = <<"l", "1">>
    /\ fetched[3].link = <<"l", "6">>
    /\ fetched[4].link = <<"b">>

\* the place of the first timestamp field of an entry that satisfies a test,
\* in the order published, updated, created, modified; 0 when none does
FirstField(e, Test(_)) ==
    IF \E k \in DOMAIN TimestampKeys : Test(e[TimestampKeys[k]])
    THEN CHOOSE k \in DOMAIN TimestampKeys :
            /\ Test(e[TimestampKeys[k]])
            /\ \A l \in 1..(k - 1) : ~Test(e[TimestampKeys[l]])
    ELSE 0

IsPresent(raw) == raw.kind # "absent"
IsParseable(raw) == raw.kind = "ok"

\* the timestamp read from the first present field, none when that field does
\* not parse
FirstPresentTimestamp(e) ==
    LET k == FirstField(e, IsPresent)
    IN  IF k = 0 THEN None
        ELSE IF IsParseable(e[TimestampKeys[k]]) THEN Some(ToUtc(e[TimestampKeys[k]]))
        ELSE None

\* the timestamp read from the first field that is present and parses
FirstParseableTimestamp(e) ==
    LET k == FirstField(e, IsParseable)
    IN  IF k = 0 THEN None ELSE Some(ToUtc(e[TimestampKeys[k]]))

\* fetch_items judged and dated every entry by the timestamp a rule gives it:
\* the entries kept are those with a link and no timestamp or one inside the
\* window, and each item shows the date of that timestamp
JudgedBy(Ts(_)) ==
    LET Keeps(e, clock) ==
            /\ HasLink(e)
            /\ (~Ts(e).some \/ Ts(e).utc >= clock - hours * SecondsPerHour)
        K == KeptPositions(Keeps)
    IN  /\ FetchedAre(Keeps)
        /\ \A p \in K :
              LET ts == Ts(Considered(p[1])[p[2]])
              IN  fetched[RankIn(K, p)].published_iso =
                      IF ts.some THEN PublishedIso(ts.utc) ELSE <<>>

\* C12 as stated: the timestamp of an entry is that of its first present
\* field in the order published, updated, created, modified; when that field
\* does not parse the entry has no timestamp and is always included, whatever
\* the lower-priority fields hold.
C12_TimestampIsFirstPresentField ==
    pc = "fetched" => JudgedBy(FirstPresentTimestamp)

\* C12 amended: the timestamp of an entry is that of the first field, in the
\* order published, updated, created, modified, that is present and parses; a
\* present field that does not parse is passed over and the next field is
\* tried; only an entry none of whose fields parses has no timestamp and is
\* always included.
C12_TimestampIsFirstParseableField ==
    pc = "fetched" => JudgedBy(FirstParseableTimestamp)

\* an entry whose published does not parse and whose updated is a second too
\* old for the 24-hour window was dropped; the entry after it, judged by its
\* updated because it has no published, was kept
C12_Witness ==
    /\ pc = "fetched"
    /\ hours = 24
    /\ ~web[<<"u">>].ok
    /\ Considered(2) = <<StampedEntry(9, <<" ", "l", "9">>),
                         StampedEntry(10, <<" ", "l", "1", "0">>)>>
    /\ fetched[1].link = <<"l", "1", "0">>
    /\ fetched[1].published_iso = PublishedIso(Now0)

\* what the i-th feed gives when it is fetched alone at the time it was
\* fetched in the run; nothing when its fetch failed
FeedAlone(i) ==
    LET parsed == web[feeds[i].url]
    IN  IF parsed.ok
        THEN fetch_items(<<feeds[i]>>, web, hours, per_feed, fetch_log[i] - parsed.took)
        ELSE <<>>

RECURSIVE FeedsInOrder(_)
FeedsInOrder(i) == IF i > Len(feeds) THEN <<>> ELSE FeedAlone(i) \o FeedsInOrder(i + 1)

\* C15: a feed whose fetch fails does not end fetch_items: every feed of the
\* list is fetched, once and in order; the feed that failed contributes no
\* item; the result is the items of the feeds that succeeded, each feed
\* giving what it gives when fetched alone, in the order of the list.
C15_FailedFeedIsSkipped ==
    pc = "fetched" =>
        /\ Len(fetch_log) = Len(feeds)
        /\ \A i \in DOMAIN feeds :
              ~web[feeds[i].url].ok =>
                  \A k \in DOMAIN fetched : fetched[k].source # feeds[i].name
        /\ fetched = FeedsInOrder(1)

\* the second of three feeds failed; the items are the first feed's, then the
\* third's
C15_Witness ==
    /\ pc = "fetched"
    /\ Len(feeds) = 3
    /\ web[feeds[1].url].ok
    /\ ~web[feeds[2].url].ok
    /\ web[feeds[3].url].ok
    /\ Len(fetched) = 2
    /\ fetched[1].source = feeds[1].name
    /\ fetched[2].source = feeds[3].name

(***************************************************************************)
(* Delivery.                                                               *)
(***************************************************************************)
\* C13: every failure of the SMTP session of send_email (connecting, logging
\* in or sending) reaches the caller as the one delivery error, RuntimeError,
\* and ends the run with nothing sent; at most one session is ever opened (no
\* retry); when the session succeeds send_email returns the number of
\* recipients the message went to.
C13_TransportFailureIsDeliveryError ==
    /\ smtp_sessions <= 1
    /\ smtp \notin {"none", "ok"} =>
          /\ pc = "exit"
          /\ exc.name = "RuntimeError"
          /\ exc.in = "send_email"
          /\ outbox = <<>>
    /\ smtp = "ok" =>
          /\ pc = "done"
          /\ Len(outbox) = 1
          /\ sent = Len(outbox[1].to)

(***************************************************************************)
(* Configuration.                                                          *)
(***************************************************************************)
\* a prompt template file is missing or holds nothing but white space
PromptBad(file) == ~file.exists \/ strip(file.text) = <<>>

\* the feed configuration file is missing or none of its rows has an rss_url
NoUsableFeed ==
    \/ ~csv_file.exists
    \/ \A i \in DOMAIN csv_file.text : strip(csv_file.text[i].rss_url) = <<>>

\* C14: when the feed configuration file is missing or yields no feed with a
\* non-empty rss_url, or a prompt template file is missing or empty, the run
\* never gets past the loading of its configuration: it can only end, with a
\* non-zero exit status and a message, and no feed has been fetched, no
\* summarisation request issued and no SMTP session started.
C14_BadConfigEndsBeforeSideEffects ==
    (PromptBad(prompts.system) \/ PromptBad(prompts.user) \/ NoUsableFeed) =>
        /\ pc \in {"import", "start", "exit"}
        /\ (PromptBad(prompts.system) \/ PromptBad(prompts.user)) => pc # "start"
        /\ pc = "exit" => (ExitCode(exc) # 0 /\ exc.msg # "")
        /\ fetch_log = <<>>
        /\ requests = 0
        /\ smtp_sessions = 0
        /\ outbox = <<>>

\* the interpreter runs the program on: every step that can be taken is taken
SpecLive == Init /\ [][Next]_vars /\ WF_vars(Next)

\* C14, with the end of the run: under a configuration as in C14 the state is
\* always as C14_BadConfigEndsBeforeSideEffects says, and the run does end.
C14_BadConfigEndsRun ==
    /\ [](C14_BadConfigEndsBeforeSideEffects)
    /\ (PromptBad(prompts.system) \/ PromptBad(prompts.user) \/ NoUsableFeed)
          ~> (pc = "exit")

\* the configuration file has a row, but no row with an rss_url: the run has
\* ended in main with the message that no feed was found, before anything
C14_Witness ==
    /\ pc = "exit"
    /\ csv_file.exists
    /\ csv_file.text # <<>>
    /\ exc = Exc("SystemExit", "main", "No feeds found")
    /\ stages = <<"load_feeds">>
    /\ fetch_log = <<>>

(***************************************************************************)
(* The email of a run.                                                     *)
(***************************************************************************)
\* C16: the subject of the email a run sent ends in "(no new items)" exactly
\* when no item was left after fetching and de-duplication, in "(headlines)"
\* exactly when there were items and the fallback digest was used, and in
\* neither when the remote summarisation succeeded.
C16_SubjectSuffixTellsThePath ==
    pc = "done" =>
        /\ Len(outbox) = 1
        /\ outbox[1].subject = "(no new items)" <=> items = <<>>
        /\ outbox[1].subject = "(headlines)" <=> (items # <<>> /\ used_fallback)
        /\ (items # <<>> /\ ~used_fallback) => outbox[1].subject = ""

\* an email went out with "(headlines)": there were items, the endpoint was
\* asked and its answer was unusable
C16_Witness ==
    /\ pc = "done"
    /\ items # <<>>
    /\ requests = 1
    /\ response.kind = "no_choices"
    /\ used_fallback
    /\ outbox[1].subject = "(headlines)"

\* C17: build_fallback_digest returns one item per raw item, in the same
\* order, each with the raw item's title, link and source, the fixed summary,
\* market impact and action texts and the single tag "headline"; its
\* highlights are "source: title" of the first 3 raw items, or the one quiet
\* placeholder when there is no raw item.
C17_FallbackDigestMirrorsRawItems ==
    pc = "fallback_built" =>
        /\ Len(digest.items) = Len(selected)
        /\ \A i \in DOMAIN selected :
              /\ digest.items[i].title = selected[i].title
              /\ digest.items[i].url = selected[i].link
              /\ digest.items[i].source = selected[i].source
              /\ digest.items[i].summary =
                    <<"Perplexity unavailable; sharing headline details only.">>
              /\ digest.items[i].market_impact =
                    <<"Review primary source to assess potential portfolio impact.">>
              /\ digest.items[i].action =
                    <<"Scan the linked piece and flag follow-ups during Monday's stand-up.">>
              /\ digest.items[i].tags = <<(<<"headline">>)>>
        /\ IF selected = <<>>
           THEN digest.highlights = <<(<<"Quiet tape across tracked feeds">>)>>
           ELSE /\ Len(digest.highlights) = Min(3, Len(selected))
                /\ \A i \in 1..Min(3, Len(selected)) :
                      digest.highlights[i] =
                          selected[i].source \o <<":", " ">> \o selected[i].title

\* the fallback digest of more raw items than a digest usually holds: all of
\* them are there, and three highlights
C17_Witness ==
    /\ pc = "fallback_built"
    /\ Len(selected) > 10
    /\ Len(digest.items) = Len(selected)
    /\ Len(digest.highlights) = 3
    /\ digest.items[Len(selected)].url = selected[Len(selected)].link

(***************************************************************************)
(* The run as a whole.                                                     *)
(***************************************************************************)
\* the place of a stage in the data flow
StageRank(st) ==
    CASE st = "load_feeds" -> 1
      [] st = "fetch" -> 2
      [] st = "dedupe" -> 3
      [] st = "summarize" -> 4
      [] st = "sanitize" -> 5
      [] st = "fallback" -> 5
      [] st = "render" -> 6
      [] st = "send" -> 7

\* the run got past the loading of its configuration
PastConfigLoading == \E i \in DOMAIN stages : stages[i] = "fetch"

\* the run was ended by an exception that left send_email: one of its SMTP
\* session, or the SystemExit of _mail_recipients for a MAIL_TO without address
HitDeliveryError == pc = "exit" /\ exc.in \in {"send_email", "_mail_recipients"}

\* C18: the stages of every run occur in the order load feeds, fetch,
\* de-duplicate, summarize then sanitize or fallback, render, send; at most
\* one summarisation request is issued and at most one email is sent; no
\* request is issued when no item survived de-duplication; and a run that got
\* past the loading of its configuration and did not hit a delivery error
\* has, once it is over, sent exactly one email.
C18_OneOrderedPassOneEmail ==
    /\ \A i, j \in DOMAIN stages : i < j => StageRank(stages[i]) < StageRank(stages[j])
    /\ requests <= 1
    /\ Len(outbox) <= 1
    /\ (pc \notin {"import", "start", "loaded", "fetched"} /\ items = <<>>) => requests = 0
    /\ (pc \in {"exit", "done"} /\ PastConfigLoading /\ ~HitDeliveryError) =>
          Len(outbox) = 1

(***************************************************************************)
(* The fallback notice.                                                    *)
(***************************************************************************)
\* main has rendered the email of this run
Rendered == \E i \in DOMAIN stages : stages[i] = "render"

\* the remote summarisation was attempted in this run, and it failed
SummarizationFailed ==
    /\ \E i \in DOMAIN stages : stages[i] = "summarize"
    /\ used_fallback

\* C19 as stated: the rendered email carries the fallback notice exactly in
\* the runs where the remote summarisation was attempted and failed; a run
\* whose summarisation succeeded and a run that found no item and attempted
\* none both render an email without the notice.
C19_NoticeIffSummarizationFailed ==
    Rendered => (body.fallback_notice <=> SummarizationFailed)

\* C19 amended: the rendered email carries the fallback notice exactly in the
\* runs where build_digest_payload fell back to the local digest (the key is
\* missing or the request failed) and in the runs where no item was found,
\* whose placeholder email main renders with the notice although no
\* summarisation was attempted; a run whose summarisation succeeded renders
\* an email without the notice.
C19_NoticeIffFallbackOrNoItems ==
    Rendered => (body.fallback_notice <=> (SummarizationFailed \/ items = <<>>))

\* the email of a run that found no item and asked the endpoint nothing went
\* out with the notice
C19_Witness ==
    /\ pc = "done"
    /\ items = <<>>
    /\ requests = 0
    /\ stages = <<"load_feeds", "fetch", "dedupe", "render", "send">>
    /\ outbox[1].body.fallback_notice
====
